---- MODULE Spec2Model ----
(***************************************************************************)
(* Model of the search-comparison service: the /compare handler            *)
(* (src/app.py), the Exa wrapper with its two text cleaners                *)
(* (src/utils/exa_client.py) and the traditional-search mock               *)
(* (src/utils/traditional_search.py).                                      *)
(*                                                                         *)
(* Python strings are sequences of one-character strings.  The regular     *)
(* expressions of the source are sequences of items (a quantified          *)
(* character class, or a zero-width assertion) matched with Python's       *)
(* leftmost, greedy, backtracking semantics.                               *)
(***************************************************************************)
EXTENDS Integers, Sequences, FiniteSets, TLC

VARIABLES
    pc,                  \* the position within the handler (or the cleaner)
    form,                \* request.form of the POST /compare request
    query,               \* line 22
    max_results,         \* line 23
    search_reply,        \* what client.search_and_contents did
    exa_results,         \* line 34
    answer_reply,        \* what client.answer did
    exa_answer,          \* line 43
    traditional_results, \* line 45
    metrics,             \* lines 48-52
    calls,               \* the collaborators invoked so far, in order
    response,            \* the (body, status) the handler returned
    sample,              \* how the raw answer under test was built
    text,                \* the raw text under test
    content,             \* clean_markdown_text(text)
    content2             \* clean_markdown_text(content)

vars == <<pc, form, query, max_results, search_reply, exa_results,
          answer_reply, exa_answer, traditional_results, metrics,
          calls, response, sample, text, content, content2>>

(***************************************************************************)
(* Characters and Python's character predicates.                           *)
(***************************************************************************)
NL == "\n"
TAB == "\t"
\* the backquote character (a TLA+ string cannot hold it)
BQ == "BQ"

\* str.isspace() / the class \s, over the characters the model uses
Whitespace == {" ", NL, TAB}

LowerLetters ==
    {"a", "b", "c", "d", "e", "f", "g", "h", "i", "j", "k", "l", "m",
     "n", "o", "p", "q", "r", "s", "t", "u", "v", "w", "x", "y", "z"}
UpperLetters ==
    {"A", "B", "C", "D", "E", "F", "G", "H", "I", "J", "K", "L", "M",
     "N", "O", "P", "Q", "R", "S", "T", "U", "V", "W", "X", "Y", "Z"}
Digits == {"0", "1", "2", "3", "4", "5", "6", "7", "8", "9"}

\* the class \w
WordChars == LowerLetters \cup UpperLetters \cup Digits \cup {"_"}

\* Python's None: a value that is no string (its one element is no character)
None == <<"None">>

\* A local variable assigned once and read several times: F(v), with v
\* evaluated once before F reads it
Let(v, F(_)) == CHOOSE r \in {F(x) : x \in {v}} : TRUE

Min(a, b) == IF a < b THEN a ELSE b
Max(a, b) == IF a > b THEN a ELSE b

\* s[a:b] of Python, 1-based here: the characters a .. b-1
Slice(s, a, b) == SubSeq(s, a, b - 1)

RECURSIVE LStripFrom(_, _)
LStripFrom(s, i) ==
    IF i > Len(s) THEN Len(s) + 1
    ELSE IF s[i] \in Whitespace THEN LStripFrom(s, i + 1) ELSE i

RECURSIVE RStripFrom(_, _)
RStripFrom(s, j) ==
    IF j < 1 THEN 0
    ELSE IF s[j] \in Whitespace THEN RStripFrom(s, j - 1) ELSE j

\* str.strip()
Strip(s) ==
    LET a == LStripFrom(s, 1)
        b == RStripFrom(s, Len(s))
    IN  IF a > b THEN <<>> ELSE SubSeq(s, a, b)

SetMin(S) == CHOOSE x \in S : \A y \in S : x <= y

\* str.split(sep) for a one-character separator: the list of pieces,
\* cut at the positions of sep from position i on
RECURSIVE SplitFrom(_, _, _)
SplitFrom(s, sep, i) ==
    LET cuts == {p \in i..Len(s) : s[p] = sep}
    IN  IF cuts = {} THEN <<SubSeq(s, i, Len(s))>>
        ELSE <<SubSeq(s, i, SetMin(cuts) - 1)>>
             \o SplitFrom(s, sep, SetMin(cuts) + 1)

Split(s, sep) == SplitFrom(s, sep, 1)

\* sep.join(parts)
RECURSIVE Join(_, _)
Join(parts, sep) ==
    IF parts = <<>> THEN <<>>
    ELSE IF Len(parts) = 1 THEN parts[1]
    ELSE parts[1] \o sep \o Join(Tail(parts), sep)

\* c in s
Contains(s, c) == \E i \in 1..Len(s) : s[i] = c

(***************************************************************************)
(* Regular expressions.  An item is                                        *)
(*   Cls(neg, set, min, max)  a character class ([^...] when neg),         *)
(*                            repeated min..max times, greedy              *)
(*   Bol                      ^ under re.MULTILINE                         *)
(*   Bos                      ^ without re.MULTILINE                       *)
(*   Eos                      $ without re.MULTILINE                       *)
(*   NotBehind(set)           (?<!c) for c in set                          *)
(*   NotAhead(set)            (?!c)  for c in set                          *)
(***************************************************************************)
\* max = -1 stands for an unbounded repetition
Cls(neg, set, min, max) ==
    [kind |-> "cls", neg |-> neg, set |-> set, min |-> min, max |-> max]
Lit(c) == Cls(FALSE, {c}, 1, 1)
Bol == [kind |-> "bol"]
Bos == [kind |-> "bos"]
Eos == [kind |-> "eos"]
NotBehind(set) == [kind |-> "nlb", set |-> set]
NotAhead(set) == [kind |-> "nla", set |-> set]

InClass(item, c) == IF item.neg THEN c \notin item.set ELSE c \in item.set

AssertHolds(s, item, pos) ==
    CASE item.kind = "bol" -> pos = 1 \/ s[pos - 1] = NL
      [] item.kind = "bos" -> pos = 1
      [] item.kind = "eos" ->
            pos = Len(s) + 1 \/ (pos = Len(s) /\ s[pos] = NL)
      [] item.kind = "nlb" -> pos = 1 \/ s[pos - 1] \notin item.set
      [] item.kind = "nla" -> pos > Len(s) \/ s[pos] \notin item.set

\* how many characters from pos on are in the class, at most cap
\* (a negative cap is no cap)
Run(s, item, pos, cap) ==
    LET out == {i \in pos..Len(s) : ~InClass(item, s[i])}
        n == IF out = {} THEN Len(s) + 1 - pos ELSE SetMin(out) - pos
    IN  IF cap >= 0 /\ n > cap THEN cap ELSE n

NoMatch == <<-1>>

\* The match of items k.. at pos: the positions after each item, or NoMatch.
\* A class tries its longest repetition first and backs off one at a time.
RECURSIVE MatchFrom(_, _, _, _), TryRep(_, _, _, _, _)
MatchFrom(s, items, k, pos) ==
    IF k > Len(items) THEN <<>>
    ELSE IF items[k].kind = "cls"
         THEN TryRep(s, items, k, pos,
                     Run(s, items[k], pos, items[k].max))
         ELSE IF AssertHolds(s, items[k], pos)
              THEN LET r == MatchFrom(s, items, k + 1, pos)
                   IN  IF r = NoMatch THEN NoMatch ELSE <<pos>> \o r
              ELSE NoMatch

TryRep(s, items, k, pos, n) ==
    IF n < items[k].min THEN NoMatch
    ELSE LET r == MatchFrom(s, items, k + 1, pos + n)
         IN  IF r = NoMatch
             THEN TryRep(s, items, k, pos, n - 1)
             ELSE <<pos + n>> \o r

\* re.match(items, s)
ReMatch(items, s) == MatchFrom(s, items, 1, 1) # NoMatch

\* re.search(items, s)
ReSearch(items, s) ==
    \E p \in 1..(Len(s) + 1) : MatchFrom(s, items, 1, p) # NoMatch

\* re.sub(items, repl, s) where repl is the literal lit followed by group
\* \1 when grp > 0; grp is the index of the item the group encloses.
\* (No pattern of the source matches the empty string.)  starts are the
\* positions where the pattern matches; the scan takes the leftmost one
\* at or after pos, replaces that match and goes on behind it.
RECURSIVE SubFrom(_, _, _, _, _, _)
SubFrom(s, items, lit, grp, starts, pos) ==
    LET later == {p \in starts : p >= pos}
    IN  IF later = {} THEN SubSeq(s, pos, Len(s))
        ELSE LET p == SetMin(later)
                 m == MatchFrom(s, items, 1, p)
                 g == IF grp = 0 THEN <<>>
                      ELSE Slice(s, IF grp = 1 THEN p ELSE m[grp - 1],
                                 m[grp])
             IN  SubSeq(s, pos, p - 1) \o lit \o g
                 \o SubFrom(s, items, lit, grp, starts, m[Len(m)])

Sub(items, lit, grp, s) ==
    SubFrom(s, items, lit, grp,
            {p \in 1..Len(s) : MatchFrom(s, items, 1, p) # NoMatch}, 1)

(***************************************************************************)
(* clean_markdown_text                                                     *)
(***************************************************************************)
ImageRe == <<Lit("!"), Lit("["), Cls(TRUE, {"]"}, 0, -1), Lit("]"),
             Lit("("), Cls(TRUE, {")"}, 1, -1), Lit(")")>>
LinkRe == <<Lit("["), Cls(TRUE, {"]"}, 1, -1), Lit("]"),
            Lit("("), Cls(TRUE, {")"}, 1, -1), Lit(")")>>
HeaderRe == <<Bol, Cls(FALSE, {"#"}, 1, 6), Cls(FALSE, Whitespace, 0, -1)>>
BoldStarRe == <<Lit("*"), Lit("*"), Cls(TRUE, {"*"}, 1, -1),
                Lit("*"), Lit("*")>>
BoldUnderRe == <<Lit("_"), Lit("_"), Cls(TRUE, {"_"}, 1, -1),
                 Lit("_"), Lit("_")>>
ItalicStarRe == <<Lit("*"), Cls(TRUE, {"*"}, 1, -1), Lit("*")>>
ItalicUnderRe == <<NotBehind(WordChars), Lit("_"), Cls(TRUE, {"_"}, 1, -1),
                   Lit("_"), NotAhead(WordChars)>>
CodeRe == <<Lit(BQ), Cls(TRUE, {BQ}, 1, -1), Lit(BQ)>>
TableSeparatorRe ==
    <<Bos, Cls(FALSE, Whitespace, 0, -1), Lit("|"),
      Cls(FALSE, Whitespace \cup {"-", ":", "|"}, 1, -1), Lit("|"),
      Cls(FALSE, Whitespace, 0, -1), Eos>>
ManyNewlinesRe == <<Cls(FALSE, {NL}, 3, -1)>>
BlanksRe == <<Cls(FALSE, {" ", TAB}, 1, -1)>>

StartsWith(s, c) == Len(s) > 0 /\ s[1] = c

\* [cell.strip() for cell in line.split('|') if cell.strip()]
Cells(line) ==
    LET parts == Split(line, "|")
        kept == SelectSeq(parts, LAMBDA cell : Strip(cell) # <<>>)
    IN  [i \in 1..Len(kept) |-> Strip(kept[i])]

\* the loop over the lines: the cleaned lines
RECURSIVE CleanLines(_)
CleanLines(lines) ==
    IF lines = <<>> THEN <<>>
    ELSE LET line == Head(lines)
             rest == CleanLines(Tail(lines))
         IN  IF ReMatch(TableSeparatorRe, line) THEN rest
             ELSE IF Contains(line, "|") /\ StartsWith(Strip(line), "|")
                  THEN LET cells == Cells(line)
                       IN  IF cells # <<>>
                           THEN <<Join(cells, <<" ", "-", " ">>)>> \o rest
                           ELSE rest
                  ELSE <<line>> \o rest

clean_markdown_text(t) ==
    IF t = None \/ t = <<>> THEN <<>>
    ELSE LET t1 == Sub(ImageRe, <<>>, 3, t)
             t2 == Sub(LinkRe, <<>>, 2, t1)
             t3 == Sub(HeaderRe, <<>>, 0, t2)
             t4 == Sub(BoldStarRe, <<>>, 3, t3)
             t5 == Sub(BoldUnderRe, <<>>, 3, t4)
             t6 == Sub(ItalicStarRe, <<>>, 2, t5)
             t7 == Sub(ItalicUnderRe, <<>>, 3, t6)
             t8 == Sub(CodeRe, <<>>, 2, t7)
             t9 == Join(CleanLines(Split(t8, NL)), <<NL>>)
             t10 == Sub(ManyNewlinesRe, <<NL, NL>>, 0, t9)
             t11 == Sub(BlanksRe, <<" ">>, 0, t10)
         IN  Strip(t11)

(***************************************************************************)
(* ExaSearchWrapper.get_answer                                             *)
(***************************************************************************)
NoParen == {"(", ")"}
CitationGroupRe ==
    <<Cls(FALSE, Whitespace, 0, -1), Lit("("), Cls(TRUE, NoParen, 0, -1),
      Lit("["), Cls(TRUE, {"]"}, 0, -1), Lit("]"),
      Lit("("), Cls(TRUE, {")"}, 1, -1), Lit(")"),
      Cls(TRUE, NoParen, 0, -1), Lit(")")>>
CitationLinkRe ==
    <<Cls(FALSE, Whitespace, 0, -1), Lit("["), Cls(TRUE, {"]"}, 0, -1),
      Lit("]"), Lit("("), Cls(TRUE, {")"}, 1, -1), Lit(")")>>
CommaParenRe ==
    <<Cls(FALSE, Whitespace, 0, -1), Lit(","),
      Cls(FALSE, Whitespace, 0, -1), Lit(")")>>
\* the remnant pattern without its optional comma
EmptyParenReNoComma ==
    <<Lit("("), Cls(FALSE, Whitespace, 0, -1), Lit(")")>>
EmptyParenRe ==
    <<Lit("("), Cls(FALSE, Whitespace, 0, -1), Cls(FALSE, {","}, 0, 1),
      Cls(FALSE, Whitespace, 0, -1), Lit(")")>>
SpaceParenRe == <<Cls(FALSE, Whitespace, 1, -1), Lit(")")>>
PunctParenRe ==
    <<Cls(FALSE, {".", "!", "?"}, 1, 1), Cls(FALSE, Whitespace, 0, -1),
      Lit(")")>>
ParenPunctRe ==
    <<Lit(")"), Cls(FALSE, Whitespace, 0, -1),
      Cls(FALSE, {".", "!", "?"}, 1, 1)>>
BulletRe ==
    <<Bol, Cls(FALSE, Whitespace, 0, -1), Lit("*"),
      Cls(FALSE, Whitespace, 1, -1)>>
AnyHeaderRe == <<Cls(FALSE, {"#"}, 1, 6), Cls(FALSE, Whitespace, 0, -1)>>
SpacePunctRe ==
    <<Cls(FALSE, Whitespace, 1, -1), Cls(FALSE, {".", ",", "!", "?"}, 1, 1)>>
MultiSpaceRe == <<Cls(FALSE, Whitespace, 2, -1)>>
MultiNewlineRe == <<Cls(FALSE, {NL}, 2, -1)>>

\* lines 169-187: the chain of substitutions on the raw answer
CleanAnswer(raw) ==
    Let(Sub(CitationGroupRe, <<>>, 0, raw), LAMBDA a1 :
    Let(Sub(CitationLinkRe, <<>>, 0, a1), LAMBDA a2 :
    Let(Sub(CommaParenRe, <<")">>, 0, a2), LAMBDA a3 :
    Let(Sub(EmptyParenRe, <<>>, 0, a3), LAMBDA a4 :
    Let(Sub(SpaceParenRe, <<")">>, 0, a4), LAMBDA a5 :
    Let(Sub(PunctParenRe, <<>>, 1, a5), LAMBDA a6 :
    Let(Sub(ParenPunctRe, <<>>, 3, a6), LAMBDA a7 :
    Let(Sub(BoldStarRe, <<>>, 3, a7), LAMBDA a8 :
    Let(Sub(ItalicStarRe, <<>>, 2, a8), LAMBDA a9 :
    Let(Sub(BulletRe, <<>>, 0, a9), LAMBDA a10 :
    Let(Sub(AnyHeaderRe, <<>>, 0, a10), LAMBDA a11 :
    Let(Sub(CodeRe, <<>>, 2, a11), LAMBDA a12 :
    Let(Sub(SpacePunctRe, <<>>, 2, a12), LAMBDA a13 :
    Let(Sub(MultiSpaceRe, <<" ">>, 0, a13), LAMBDA a14 :
    Let(Sub(MultiNewlineRe, <<NL, NL>>, 0, a14), LAMBDA a15 :
    Strip(a15))))))))))))))))

\* getattr(obj, name, default) / dict.get(name, default)
Get(obj, name, default) == IF name \in DOMAIN obj THEN obj[name] ELSE default

\* a truthy value that is neither a string nor a list: an int (re.sub and
\* list.extend raise TypeError on it)
NonString == <<"NonString">>

\* a is b, for values of any shape: a list of strings cannot be compared
\* with None or an int directly, their printed forms can
Same(a, b) == ToString(a) = ToString(b)

IsString(v) == v # None /\ v # NonString

\* line 124: bool(v) of a highlights value: None and the empty list are
\* falsy, a non-empty list and a non-zero int are truthy
Truthy(v) == ~Same(v, None) /\ ~Same(v, <<>>)

\* the value can be iterated over: it is a list
IsList(v) == ~Same(v, None) /\ ~Same(v, NonString)

\* type(v).__name__ of a value that is no string and no list
TypeName(v) == IF Same(v, None) THEN "NoneType" ELSE "int"

\* type(obj).__name__ of a response object
ClassName(obj) == Get(obj, "class", "object")

\* str(e) of the TypeError a regular expression raises on the non-string v
NotAStringMessage(v) ==
    <<"expected string or bytes-like object, got '", TypeName(v), "'">>
\* str(e) of the TypeError of iterating over the value v that is no list
NotIterableMessage(v) == <<"'", TypeName(v), "' object is not iterable">>
\* str(e) of the AttributeError of response.results on a response without it
NoResultsMessage(obj) ==
    <<"'", ClassName(obj), "' object has no attribute 'results'">>

\* get_answer with the cleaning outside the try block's protection: a raw
\* answer that cannot be cleaned comes back as it is, with no error
get_answer_unguarded(reply) ==
    IF reply.raised
    THEN [answer |-> <<>>, citation_urls |-> <<>>, error |-> reply.error]
    ELSE LET raw == Get(reply.response, "answer", <<>>)
         IN  [answer |-> IF IsString(raw) THEN CleanAnswer(raw) ELSE raw,
              citation_urls |-> <<>>,
              error |-> None]

\* The upstream reply to client.answer: [raised |-> TRUE, error |-> message]
\* or [raised |-> FALSE, response |-> the response object].
get_answer(reply) ==
    LET failure(msg) ==
            [answer |-> <<>>, citation_urls |-> <<>>, error |-> msg]
    IN  IF reply.raised THEN failure(reply.error)
        ELSE LET citations == Get(reply.response, "citations", <<>>)
             IN  Let(Get(reply.response, "answer", <<>>), LAMBDA raw :
                 IF ~IsString(raw) THEN failure(NotAStringMessage(raw))
                 ELSE IF ~IsList(citations)
                 THEN failure(NotIterableMessage(citations))
                 ELSE [answer |-> CleanAnswer(raw),
                       citation_urls |->
                           [i \in 1..Len(citations) |->
                               Get(citations[i], "url", <<>>)],
                       error |-> None])

(***************************************************************************)
(* ExaSearchWrapper.search                                                 *)
(***************************************************************************)
\* lines 111-119: one formatted result
FormatResult(result) ==
    [title |-> Get(result, "title", <<"No title">>),
     url |-> Get(result, "url", <<>>),
     content |-> clean_markdown_text(Get(result, "text", <<>>)),
     score |-> Get(result, "score", 0),
     highlights |-> Get(result, "highlights", <<>>),
     published_date |-> Get(result, "published_date", <<>>),
     author |-> Get(result, "author", <<>>)]

\* lines 122-125: the highlights of all results, in order; a result whose
\* highlights are falsy is skipped
RECURSIVE AllHighlights(_)
AllHighlights(results) ==
    IF results = <<>> THEN <<>>
    ELSE IF Truthy(Head(results).highlights)
    THEN Head(results).highlights \o AllHighlights(Tail(results))
    ELSE AllHighlights(Tail(results))

\* line 125: the highlights on which all_highlights.extend raises, in order
NotIterable(results) ==
    SelectSeq([i \in 1..Len(results) |-> results[i].highlights],
              LAMBDA h : Truthy(h) /\ ~IsList(h))

\* seq[:n] of Python
PrefixSlice(seq, n) ==
    IF n >= 0 THEN SubSeq(seq, 1, Min(n, Len(seq)))
    ELSE SubSeq(seq, 1, Max(Len(seq) + n, 0))

\* search keeping, on an exception, the results formatted before it
search_keeping_partial(reply, q) ==
    IF reply.raised \/ "results" \notin DOMAIN reply.response
    THEN [error |-> <<"error">>, query |-> q, results |-> <<>>]
    ELSE LET raws == reply.response.results
             bad == {i \in 1..Len(raws) :
                        Get(raws[i], "text", <<>>) = NonString}
             n == IF bad = {} THEN Len(raws) ELSE SetMin(bad) - 1
             formatted == [i \in 1..n |-> FormatResult(raws[i])]
         IN  IF bad = {}
             THEN [query |-> q, answer |-> <<>>, results |-> formatted,
                   raw_response |-> reply.response]
             ELSE [error |-> NotAStringMessage(NonString), query |-> q,
                   results |-> formatted]

\* The upstream reply to client.search_and_contents: [raised |-> TRUE,
\* error |-> message] or [raised |-> FALSE, response |-> the response].
search(reply, q) ==
    LET failure(msg) == [error |-> msg, query |-> q, results |-> <<>>]
    IN  IF reply.raised THEN failure(reply.error)
        ELSE IF "results" \notin DOMAIN reply.response
        THEN failure(NoResultsMessage(reply.response))
        ELSE LET raws == reply.response.results
             IN  IF \E i \in 1..Len(raws) :
                            Get(raws[i], "text", <<>>) = NonString
                 THEN failure(NotAStringMessage(NonString))
                 ELSE Let([i \in 1..Len(raws) |-> FormatResult(raws[i])],
                          LAMBDA formatted :
                      IF Len(NotIterable(formatted)) > 0
                      THEN failure(NotIterableMessage(
                                       Head(NotIterable(formatted))))
                      ELSE
                      Let(AllHighlights(formatted),
                          LAMBDA all_highlights :
                          [query |-> q,
                           answer |->
                               IF all_highlights # <<>>
                               THEN Join(PrefixSlice(all_highlights, 5),
                                         <<" ">>)
                               ELSE <<>>,
                           results |-> formatted,
                           raw_response |-> reply.response]))

(***************************************************************************)
(* TraditionalSearchMock                                                   *)
(***************************************************************************)
LowerSeq ==
    <<"a", "b", "c", "d", "e", "f", "g", "h", "i", "j", "k", "l", "m",
      "n", "o", "p", "q", "r", "s", "t", "u", "v", "w", "x", "y", "z">>
UpperSeq ==
    <<"A", "B", "C", "D", "E", "F", "G", "H", "I", "J", "K", "L", "M",
      "N", "O", "P", "Q", "R", "S", "T", "U", "V", "W", "X", "Y", "Z">>

IsCased(c) == c \in LowerLetters \cup UpperLetters
ToUpper(c) ==
    IF c \in LowerLetters
    THEN UpperSeq[CHOOSE i \in 1..Len(LowerSeq) : LowerSeq[i] = c] ELSE c
ToLower(c) ==
    IF c \in UpperLetters
    THEN LowerSeq[CHOOSE i \in 1..Len(UpperSeq) : UpperSeq[i] = c] ELSE c

\* str.title(): a letter is upper-cased after a non-letter, else lower-cased
Title(s) ==
    [i \in 1..Len(s) |->
        IF i > 1 /\ IsCased(s[i - 1]) THEN ToLower(s[i]) ELSE ToUpper(s[i])]

\* str.replace(old, new) for one-character old and new
Replace(s, old, new) == [i \in 1..Len(s) |-> IF s[i] = old THEN new ELSE s[i]]

\* lines 53-104: the ten templates; a string is the concatenation of its
\* pieces (the literal parts of an f-string are single pieces)
MockTemplates(q) ==
    <<[title |-> Title(q) \o <<" - Comprehensive Guide">>,
       url |-> <<"https://example.com/guide/">> \o Replace(q, " ", "-"),
       snippet |-> <<"Learn about ">> \o q
           \o <<" in this comprehensive guide. Discover the best practices, tips, and techniques for understanding ">>
           \o q \o <<"...">>],
      [title |-> <<"Understanding ">> \o Title(q)
           \o <<": A Complete Overview">>,
       url |-> <<"https://docs.example.org/">> \o Replace(q, " ", "-"),
       snippet |-> <<"Everything you need to know about ">> \o q
           \o <<". This article covers the fundamentals, advanced concepts, and practical applications...">>],
      [title |-> Title(q) \o <<" Explained - Tutorial">>,
       url |-> <<"https://tutorial.site/">> \o Replace(q, " ", "/"),
       snippet |-> <<"A step-by-step tutorial on ">> \o q
           \o <<". Perfect for beginners and advanced users alike. Includes examples and best practices...">>],
      [title |-> <<"Latest News and Updates on ">> \o Title(q),
       url |-> <<"https://news.example.com/topics/">>
           \o Replace(q, " ", "-"),
       snippet |-> <<"Stay up to date with the latest developments in ">>
           \o q
           \o <<". Recent articles, announcements, and industry insights...">>],
      [title |-> Title(q) \o <<" - Wikipedia">>,
       url |-> <<"https://wikipedia.org/wiki/">> \o Replace(q, " ", "_"),
       snippet |-> Title(q)
           \o <<" refers to... From Wikipedia, the free encyclopedia. This article needs additional citations for verification...">>],
      [title |-> Title(q) \o <<" Best Practices and Tips">>,
       url |-> <<"https://medium.com/@author/">> \o Replace(q, " ", "-")
           \o <<"-best-practices">>,
       snippet |-> <<"In this article, we explore the best practices for ">>
           \o q
           \o <<". Learn from industry experts and improve your understanding...">>],
      [title |-> <<"The Ultimate ">> \o Title(q) \o <<" Resource">>,
       url |-> <<"https://resources.dev/">> \o Replace(q, " ", "-"),
       snippet |-> <<"Your one-stop resource for everything related to ">>
           \o q
           \o <<". Curated links, tutorials, and documentation...">>],
      [title |-> Title(q) \o <<" FAQ - Frequently Asked Questions">>,
       url |-> <<"https://faq.example.com/">> \o Replace(q, " ", "-"),
       snippet |-> <<"Find answers to the most common questions about ">>
           \o q
           \o <<". Our FAQ covers basics to advanced topics...">>],
      [title |-> <<"Getting Started with ">> \o Title(q),
       url |-> <<"https://quickstart.io/">> \o Replace(q, " ", "-"),
       snippet |-> <<"New to ">> \o q
           \o <<"? This getting started guide will help you understand the fundamentals quickly and efficiently...">>],
      [title |-> Title(q) \o <<" Documentation - Official">>,
       url |-> <<"https://docs.official.com/">> \o Replace(q, " ", "-"),
       snippet |-> <<"Official documentation for ">> \o q
           \o <<". Complete API reference, guides, and examples for developers...">>]>>

\* the slice one short: mock_templates[:max_results - 1]
generate_mock_results_one_short(q, n) == PrefixSlice(MockTemplates(q), n - 1)

\* _generate_mock_results: mock_templates[:max_results]
generate_mock_results(q, n) == PrefixSlice(MockTemplates(q), n)

\* TraditionalSearchMock.search
traditional_search(q, n) ==
    Let(generate_mock_results(q, n),
        LAMBDA mock_results :
            [query |-> q,
             results |-> mock_results,
             total_results |-> Len(mock_results)])

(***************************************************************************)
(* RAGMetrics (utils/metrics.py)                                           *)
(***************************************************************************)
\* len() of a string given as pieces
RECURSIVE StrLen(_)
StrLen(str) ==
    IF str = <<>> THEN 0
    ELSE (IF Head(str) = BQ THEN 1 ELSE Len(Head(str))) + StrLen(Tail(str))

RECURSIVE SumLen(_, _)
SumLen(results, field) ==
    IF results = <<>> THEN 0
    ELSE StrLen(Get(Head(results), field, <<>>))
         + SumLen(Tail(results), field)

Report(results, field) ==
    [total_results |-> Len(results),
     total_content_length |-> SumLen(results, field),
     average_content_length |->
         IF results = <<>> THEN 0
         ELSE SumLen(results, field) \div Len(results),
     results_with_highlights |->
         Cardinality({i \in 1..Len(results) :
                         Get(results[i], "highlights", <<>>) # <<>>})]

calculate_exa_metrics(results) ==
    Report(Get(results, "results", <<>>), "content")

calculate_traditional_metrics(results) ==
    Report(Get(results, "results", <<>>), "snippet")

compare_metrics(exa, traditional) ==
    [k \in DOMAIN exa |->
        [exa |-> exa[k],
         traditional |-> traditional[k],
         difference |-> exa[k] - traditional[k],
         larger |-> IF exa[k] > traditional[k] THEN "exa"
                    ELSE IF exa[k] < traditional[k] THEN "traditional"
                    ELSE "equal"]]

(***************************************************************************)
(* The /compare handler (src/app.py)                                       *)
(***************************************************************************)
DEFAULT_MAX_RESULTS == 5

\* int(s) of a form value: [ok |-> FALSE] stands for the ValueError
RECURSIVE DigitsValue(_, _)
DigitsValue(ds, acc) ==
    IF ds = <<>> THEN acc
    ELSE IF Head(ds) = "_" THEN DigitsValue(Tail(ds), acc)
    ELSE DigitsValue(Tail(ds),
                     10 * acc + (CHOOSE d \in 0..9 : ToString(d) = Head(ds)))

ParseInt(s) ==
    LET t == Strip(s)
        signed == t # <<>> /\ t[1] \in {"+", "-"}
        body == IF signed THEN Tail(t) ELSE t
        wellformed ==
            /\ body # <<>>
            /\ \A i \in 1..Len(body) : body[i] \in Digits \cup {"_"}
            /\ body[1] # "_" /\ body[Len(body)] # "_"
            /\ \A i \in 1..(Len(body) - 1) :
                   ~(body[i] = "_" /\ body[i + 1] = "_")
    IN  IF ~wellformed THEN [ok |-> FALSE]
        ELSE [ok |-> TRUE,
              val |-> IF signed /\ t[1] = "-"
                      THEN 0 - DigitsValue(body, 0)
                      ELSE DigitsValue(body, 0)]

\* line 23: int(request.form.get('max_results', Config.DEFAULT_MAX_RESULTS))
ParseMaxResults(f) ==
    IF "max_results" \in DOMAIN f THEN ParseInt(f.max_results)
    ELSE [ok |-> TRUE, val |-> DEFAULT_MAX_RESULTS]

\* line 37: 'error' in exa_results and not exa_results.get('results')
IsFatal(results) ==
    "error" \in DOMAIN results /\ Get(results, "results", <<>>) = <<>>

WorkflowSteps ==
    <<"Call search API (Google, Bing, SerpAPI)",
      "Get URLs and short snippets",
      "For each URL, you need to scrape the page (requests, selenium), parse HTML (BeautifulSoup, lxml), extract main content (custom logic), clean and format text and handle errors (404s, timeouts, paywalls)",
      "Filter and rank extracted content",
      "Optimize for LLM context window",
      "Finally get RAG-ready content">>

Problems ==
    <<"Multiple API calls required",
      "Complex scraping logic needed",
      "Error handling for each website",
      "Content extraction varies by site",
      "High latency (serial scraping)",
      "Maintenance burden (site changes)",
      "Rate limiting concerns",
      "Extra infrastructure needed">>

(***************************************************************************)
(* Bounds and the inputs drawn from them                                   *)
(***************************************************************************)
MaxRequested == 11        \* the largest max_results a form asks for
MaxProviderResults == 2   \* the most results a provider response carries
MaxLen == 3               \* the longest raw text enumerated in full
MaxRun == 3               \* the longest run of newlines or of spaces

Unset == [unset |-> TRUE]

RECURSIVE ToDigits(_)
ToDigits(n) ==
    IF n < 10 THEN <<ToString(n)>>
    ELSE ToDigits(n \div 10) \o <<ToString(n % 10)>>

FormQueries ==
    {<<>>, <<" ", " ">>, <<"a", "i">>,
     <<"r", "a", "g", " ", "p", "i", "p", "e", "l", "i", "n", "e", "s", " ">>}

FormMaxValues ==
    {ToDigits(n) : n \in 0..MaxRequested}
    \cup {<<>>, <<"a", "b", "c">>, <<"-", "1">>, <<" ", "2", " ">>}

\* request.form: each field present or absent
Forms ==
    [query : FormQueries, max_results : FormMaxValues]
    \cup [query : FormQueries] \cup [max_results : FormMaxValues]
    \cup {[other |-> <<>>]}

\* "See [docs](http://x.com/y) now"
DocsText ==
    <<"S", "e", "e", " ", "[", "d", "o", "c", "s", "]", "(", "h", "t", "t",
      "p", ":", "/", "/", "x", ".", "c", "o", "m", "/", "y", ")", " ", "n",
      "o", "w">>

RawResultSamples ==
    {[title |-> <<"D", "o", "c", "s">>, url |-> <<"h", "t", "t", "p", ":",
          "/", "/", "x", ".", "c", "o", "m">>,
      text |-> DocsText, score |-> 1,
      highlights |-> <<<<"d", "o", "c", "s">>, <<"n", "o", "w">>>>],
     [url |-> <<"u">>, text |-> <<"|", "a", "|", "*", "*", "b", "*", "*", "|">>],
     [title |-> <<"B", "a", "d">>, text |-> NonString],
     [title |-> <<"N">>, text |-> <<"#", " ", "a">>, highlights |-> None],
     [text |-> None, highlights |-> NonString]}

RECURSIVE SeqsUpTo(_, _)
SeqsUpTo(S, n) ==
    IF n = 0 THEN {<<>>}
    ELSE LET P == SeqsUpTo(S, n - 1)
         IN  P \cup {Append(p, x) : p \in P, x \in S}

SearchReplies ==
    {[raised |-> TRUE, error |-> <<"timeout">>]}
    \cup {[raised |-> FALSE, response |-> [results |-> rs]] :
            rs \in SeqsUpTo(RawResultSamples, MaxProviderResults)}
    \cup {[raised |-> FALSE, response |-> [class |-> "NoneType"]]}

\* "Paris is the capital"
ParisText ==
    <<"P", "a", "r", "i", "s", " ", "i", "s", " ", "t", "h", "e", " ", "c",
      "a", "p", "i", "t", "a", "l">>

AnswerReplies ==
    {[raised |-> TRUE, error |-> <<"rate limited">>],
     [raised |-> FALSE, response |-> [answer |-> None, citations |-> <<>>]],
     [raised |-> FALSE, response |-> [answer |-> NonString]],
     [raised |-> FALSE, response |-> [citations |-> <<>>]],
     [raised |-> FALSE, response |-> [answer |-> ParisText, citations |-> None]],
     [raised |-> FALSE,
      response |-> [answer |-> ParisText \o <<" ", "*", "*", "!", "*", "*">>,
                    citations |-> <<[url |-> <<"u">>], [title |-> <<"t">>]>>]]}

(***************************************************************************)
(* compare(), step by step                                                 *)
(***************************************************************************)
Init ==
    /\ pc = "request"
    /\ form = Unset
    /\ query = <<>>
    /\ max_results = 0
    /\ search_reply = Unset
    /\ exa_results = Unset
    /\ answer_reply = Unset
    /\ exa_answer = Unset
    /\ traditional_results = Unset
    /\ metrics = Unset
    /\ calls = <<>>
    /\ response = Unset
    /\ sample = Unset
    /\ text = <<>>
    /\ content = <<>>
    /\ content2 = <<>>

\* lines 22-26: read the form, convert max_results, validate the query
ParseRequest ==
    /\ pc = "request"
    /\ \E f \in Forms :
        \E q \in {Strip(Get(f, "query", <<>>))}, m \in {ParseMaxResults(f)} :
            /\ form' = f
            /\ query' = q
            /\ IF ~m.ok
               THEN /\ max_results' = max_results
                    /\ response' = [status |-> 500,
                                    body |-> [exception |-> "ValueError"]]
                    /\ pc' = "done"
               ELSE /\ max_results' = m.val
                    /\ IF q = <<>>
                       THEN /\ response' =
                                [status |-> 400,
                                 body |-> [error |-> <<"Query is required">>]]
                            /\ pc' = "done"
                       ELSE /\ response' = response
                            /\ pc' = "search"
    /\ UNCHANGED <<search_reply, exa_results, answer_reply, exa_answer,
                   traditional_results, metrics, calls, sample, text,
                   content, content2>>

\* lines 34-40: the search, and the fatal outcome
ExaSearch ==
    /\ pc = "search"
    /\ \E reply \in SearchReplies :
        \E r \in {search(reply, query)} :
            /\ search_reply' = reply
            /\ exa_results' = r
            /\ IF IsFatal(r)
               THEN /\ response' =
                        [status |-> 500,
                         body |-> [error |-> <<"Exa API error: ">> \o r.error]]
                    /\ pc' = "done"
               ELSE /\ response' = response
                    /\ pc' = "answer"
    /\ calls' = Append(calls, "search")
    /\ UNCHANGED <<form, query, max_results, answer_reply, exa_answer,
                   traditional_results, metrics, sample, text, content,
                   content2>>

\* the answer endpoint called without waiting for the search's verdict
GetAnswerEarly ==
    /\ pc \in {"search", "answer"}
    /\ \A i \in 1..Len(calls) : calls[i] # "answer"
    /\ \E reply \in AnswerReplies :
        /\ answer_reply' = reply
        /\ exa_answer' = get_answer(reply)
    /\ calls' = Append(calls, "answer")
    /\ pc' = IF pc = "search" THEN "search" ELSE "traditional"
    /\ UNCHANGED <<form, query, max_results, search_reply, exa_results,
                   traditional_results, metrics, response, sample, text,
                   content, content2>>

\* line 43
GetAnswer ==
    /\ pc = "answer"
    /\ \E reply \in AnswerReplies :
        /\ answer_reply' = reply
        /\ exa_answer' = get_answer(reply)
    /\ calls' = Append(calls, "answer")
    /\ pc' = "traditional"
    /\ UNCHANGED <<form, query, max_results, search_reply, exa_results,
                   traditional_results, metrics, response, sample, text,
                   content, content2>>

\* line 45
TraditionalSearch ==
    /\ pc = "traditional"
    /\ traditional_results' = traditional_search(query, max_results)
    /\ calls' = Append(calls, "traditional")
    /\ pc' = "metrics"
    /\ UNCHANGED <<form, query, max_results, search_reply, exa_results,
                   answer_reply, exa_answer, metrics, response, sample,
                   text, content, content2>>

\* lines 48-52
ComputeMetrics ==
    /\ pc = "metrics"
    /\ \E e \in {calculate_exa_metrics(exa_results)},
          t \in {calculate_traditional_metrics(traditional_results)} :
           \E c \in {compare_metrics(e, t)} :
               metrics' = [exa |-> e, traditional |-> t, comparison |-> c]
    /\ calls' = calls \o <<"exa_metrics", "traditional_metrics",
                           "compare_metrics">>
    /\ pc' = "respond"
    /\ UNCHANGED <<form, query, max_results, search_reply, exa_results,
                   answer_reply, exa_answer, traditional_results, response,
                   sample, text, content, content2>>

\* lines 55-72
Respond ==
    /\ pc = "respond"
    /\ response' =
        [status |-> 200,
         body |-> [query |-> query,
                   exa |-> [results |-> exa_results,
                            metrics |-> metrics.exa,
                            ai_answer |-> exa_answer],
                   traditional |-> [results |-> traditional_results,
                                    metrics |-> metrics.traditional,
                                    workflow_steps |-> WorkflowSteps,
                                    problems |-> Problems],
                   comparison |-> metrics.comparison]]
    /\ pc' = "done"
    /\ UNCHANGED <<form, query, max_results, search_reply, exa_results,
                   answer_reply, exa_answer, traditional_results, metrics,
                   calls, sample, text, content, content2>>

Next ==
    \/ ParseRequest
    \/ ExaSearch
    \/ GetAnswer
    \/ TraditionalSearch
    \/ ComputeMetrics
    \/ Respond

Spec == Init /\ [][Next]_vars

(***************************************************************************)
(* clean_markdown_text on its own: every raw text over the markdown        *)
(* alphabet up to MaxLen characters, and every link whose text and target  *)
(* are separated by such a text, cleaned once and then once more.          *)
(***************************************************************************)
Alphabet ==
    {"[", "]", "(", ")", "!", "#", "*", "_", BQ, "|", "-", NL, " ", "a"}

RawTexts == SeqsUpTo(Alphabet, MaxLen)

CleanInputs ==
    RawTexts \cup {<<"[", "a">> \o m \o <<"(", "b", ")">> : m \in RawTexts}

InitClean ==
    /\ pc = "clean"
    /\ text \in CleanInputs
    /\ content = <<>>
    /\ content2 = <<>>
    /\ form = Unset
    /\ query = <<>>
    /\ max_results = 0
    /\ search_reply = Unset
    /\ exa_results = Unset
    /\ answer_reply = Unset
    /\ exa_answer = Unset
    /\ traditional_results = Unset
    /\ metrics = Unset
    /\ calls = <<>>
    /\ response = Unset
    /\ sample = Unset

\* line 109: clean_text = clean_markdown_text(raw_text)
CleanOnce ==
    /\ pc = "clean"
    /\ content' = clean_markdown_text(text)
    /\ pc' = "cleaned"
    /\ UNCHANGED <<form, query, max_results, search_reply, exa_results,
                   answer_reply, exa_answer, traditional_results, metrics,
                   calls, response, sample, text, content2>>

\* the cleaned text put through clean_markdown_text again
CleanAgain ==
    /\ pc = "cleaned"
    /\ content2' = clean_markdown_text(content)
    /\ pc' = "recleaned"
    /\ UNCHANGED <<form, query, max_results, search_reply, exa_results,
                   answer_reply, exa_answer, traditional_results, metrics,
                   calls, response, sample, text, content>>

NextClean == CleanOnce \/ CleanAgain

SpecClean == InitClean /\ [][NextClean]_vars

(***************************************************************************)
(* get_answer on its own: raw answers that end a sentence with a group of  *)
(* citations, that separate two paragraphs by a run of newlines, or that   *)
(* separate two words by a run of spaces.                                  *)
(***************************************************************************)
Sentences == {ParisText, <<"a", " ", "b">>, <<"I", "t", " ", "i", "s", " ", "5">>}

\* [Source](http://a.com), [Other](http://b.com), [x](u)
CitationLinks ==
    {<<"[", "S", "o", "u", "r", "c", "e", "]", "(", "h", "t", "t", "p", ":",
       "/", "/", "a", ".", "c", "o", "m", ")">>,
     <<"[", "O", "t", "h", "e", "r", "]", "(", "h", "t", "t", "p", ":",
       "/", "/", "b", ".", "c", "o", "m", ")">>,
     <<"[", "x", "]", "(", "u", ")">>}

Paragraphs == {<<"a">>, <<"a", "b", " ", "c">>, <<"O", "n", "e", ".">>}

\* groups of one, two and three links
CitationGroups ==
    {g \in SeqsUpTo(CitationLinks, 3) : g # <<>>}

AnswerSamples ==
    [kind : {"citation"}, sentence : Sentences, links : CitationGroups,
     sep : {<<",", " ">>, <<",">>}, punct : {".", "!", "?"}]
    \cup [kind : {"paragraphs"}, first : Paragraphs, second : Paragraphs,
          newlines : 2..MaxRun]
    \cup [kind : {"spaces"}, first : Paragraphs, second : Paragraphs,
          spaces : 2..MaxRun]

Repeat(c, n) == [i \in 1..n |-> c]

\* the raw answer of a sample
Render(smp) ==
    CASE smp.kind = "citation" ->
            smp.sentence \o <<" ", "(">> \o Join(smp.links, smp.sep)
            \o <<")", smp.punct>>
      [] smp.kind = "paragraphs" ->
            smp.first \o Repeat(NL, smp.newlines) \o smp.second
      [] smp.kind = "spaces" ->
            smp.first \o Repeat(" ", smp.spaces) \o smp.second

InitAnswer ==
    /\ pc = "answer"
    /\ sample \in AnswerSamples
    /\ answer_reply = Unset
    /\ exa_answer = Unset
    /\ text = <<>>
    /\ content = <<>>
    /\ content2 = <<>>
    /\ form = Unset
    /\ query = <<>>
    /\ max_results = 0
    /\ search_reply = Unset
    /\ exa_results = Unset
    /\ traditional_results = Unset
    /\ metrics = Unset
    /\ calls = <<>>
    /\ response = Unset

\* line 43, the answer endpoint returning the sample's raw answer
AnswerSample ==
    /\ pc = "answer"
    /\ sample # Unset
    /\ \E reply \in {[raised |-> FALSE,
                        response |-> [answer |-> Render(sample),
                                      citations |-> <<>>]]} :
           /\ answer_reply' = reply
           /\ exa_answer' = get_answer(reply)
    /\ calls' = Append(calls, "answer")
    /\ pc' = "answered"
    /\ UNCHANGED <<form, query, max_results, search_reply, exa_results,
                   traditional_results, metrics, response, sample, text,
                   content, content2>>

NextAnswer == AnswerSample

SpecAnswer == InitAnswer /\ [][NextAnswer]_vars

(***************************************************************************)
(* Properties                                                              *)
(***************************************************************************)
QueryRequired == [status |-> 400, body |-> [error |-> <<"Query is required">>]]

EmptyQuery == form # Unset /\ Strip(Get(form, "query", <<>>)) = <<>>

\* C1: a request whose query is empty after trimming is answered with
\* {"error": "Query is required"} and status 400, whatever max_results
\* holds, and neither the search provider nor the answer endpoint is called.
C1_EmptyQueryIsRejected ==
    (pc = "done" /\ EmptyQuery) => (response = QueryRequired /\ calls = <<>>)

FatalCase ==
    "error" \in DOMAIN exa_results /\ exa_results.results = <<>>

FullPayload ==
    /\ response.status = 200
    /\ DOMAIN response.body = {"query", "exa", "traditional", "comparison"}
    /\ response.body.query = query
    /\ response.body.exa.results = exa_results
    /\ response.body.exa.metrics = metrics.exa
    /\ response.body.exa.ai_answer = exa_answer
    /\ response.body.traditional.results = traditional_results
    /\ response.body.traditional.metrics = metrics.traditional
    /\ response.body.comparison = metrics.comparison

\* Once the search has returned, the request ends in the fatal outcome
\* (status 500, "Exa API error: <message>") exactly when the search result
\* has an error and no results, and in the full payload otherwise.
FatalExactlyOnErrorWithoutResults ==
    (pc = "done" /\ exa_results # Unset) =>
        IF FatalCase
        THEN response = [status |-> 500,
                         body |-> [error |-> <<"Exa API error: ">>
                                              \o exa_results.error]]
        ELSE FullPayload

\* The dict returned by search never has an error together with results
\* (lines 132-137 set results to []), so the second half of the test of
\* line 37 never decides: no request sees the partial case.
NoErrorWithResults ==
    (exa_results # Unset /\ "error" \in DOMAIN exa_results) =>
        exa_results.results = <<>>

\* the answer call raised: upstream, or while the raw answer was cleaned
AnswerFailed ==
    \/ answer_reply.raised
    \/ ~IsString(Get(answer_reply.response, "answer", <<>>))
    \/ ~IsList(Get(answer_reply.response, "citations", <<>>))

\* C3: when the answer call fails, get_answer returns exactly
\* {answer: "", citation_urls: [], error: <message>} with an error that is
\* not None, and the request still ends in the full payload; when the
\* answer call succeeds, error is None.
C3_AnswerFailureIsContained ==
    (answer_reply # Unset) =>
        /\ AnswerFailed =>
            /\ DOMAIN exa_answer = {"answer", "citation_urls", "error"}
            /\ exa_answer.answer = <<>>
            /\ exa_answer.citation_urls = <<>>
            /\ exa_answer.error # None
            /\ exa_answer.error # <<>>
            /\ pc = "done" => FullPayload
        /\ ~AnswerFailed => exa_answer.error = None

C3_Witness ==
    /\ pc = "done"
    /\ answer_reply # Unset
    /\ ~answer_reply.raised
    /\ AnswerFailed
    /\ exa_results.results # <<>>
    /\ response.status = 200
    /\ response.body.exa.ai_answer.error = NotAStringMessage(NonString)

\* the provider call raised, or the processing of its results did
SearchRaised ==
    \/ search_reply.raised
    \/ "results" \notin DOMAIN search_reply.response
    \/ \E i \in 1..Len(search_reply.response.results) :
           \/ Get(search_reply.response.results[i], "text", <<>>) = NonString
           \/ Same(Get(search_reply.response.results[i], "highlights", <<>>),
                   NonString)

\* C4: the result of search has an error key exactly when the provider call
\* or the processing of its results raised, and then it has no results;
\* otherwise it has one result per provider result, and a provider response
\* with no results gives no results and no error, which is not fatal.
C4_ErrorDistinctFromEmptySuccess ==
    (search_reply # Unset) =>
        /\ ("error" \in DOMAIN exa_results) <=> SearchRaised
        /\ SearchRaised => exa_results.results = <<>>
        /\ ~SearchRaised =>
            /\ Len(exa_results.results) = Len(search_reply.response.results)
            /\ pc = "done" => response.status = 200

C4_Witness ==
    /\ pc = "done"
    /\ search_reply # Unset
    /\ ~SearchRaised
    /\ search_reply.response.results = <<>>
    /\ "error" \notin DOMAIN exa_results
    /\ exa_results.results = <<>>
    /\ response.status = 200

SnippetResults ==
    /\ \A i \in 1..Len(traditional_results.results) :
           DOMAIN traditional_results.results[i] = {"title", "url", "snippet"}
    /\ traditional_results.total_results = Len(traditional_results.results)

\* C5 as stated: for every positive max_results the traditional section has
\* exactly max_results results, each with only title, url and snippet, and
\* total_results is their number.
C5_ExactlyMaxResults ==
    (traditional_results # Unset /\ max_results > 0) =>
        /\ Len(traditional_results.results) = max_results
        /\ SnippetResults

\* C5, amended: for every positive max_results the traditional section has
\* exactly min(max_results, 10) results (the generator holds ten
\* templates), each with only title, url and snippet, and total_results
\* is their number.
C5_AtMostTenResults ==
    (traditional_results # Unset /\ max_results > 0) =>
        /\ Len(traditional_results.results) = Min(max_results, 10)
        /\ SnippetResults

C5_Witness ==
    /\ pc = "done"
    /\ max_results > 10
    /\ response.status = 200
    /\ Len(response.body.traditional.results.results) = 10

\* C6: clean_markdown_text is idempotent: cleaning a cleaned text changes
\* nothing.
C6_CleanIsIdempotent == (pc = "recleaned") => (content2 = content)

BoldPair(s) == ReSearch(BoldStarRe, s)
PipeLine(s) ==
    \E i \in 1..Len(Split(s, NL)) : StartsWith(Split(s, NL)[i], "|")

\* C7: the content of a search result holds no unprocessed markdown: no
\* [text](url) link, no ![alt](url) image, no ** bold pair, and no line
\* that starts with a table pipe.
C7_NoMarkdownLeft ==
    (pc \in {"cleaned", "recleaned"}) =>
        /\ ~ReSearch(LinkRe, content)
        /\ ~ReSearch(ImageRe, content)
        /\ ~BoldPair(content)
        /\ ~PipeLine(content)

\* C8: an answer that ends a sentence with a parenthesised group of one,
\* two or three links and a punctuation mark is cleaned to the sentence
\* followed directly by that mark.
C8_CitationGroupRemoved ==
    (pc = "answered" /\ sample.kind = "citation") =>
        /\ exa_answer.answer = sample.sentence \o <<sample.punct>>
        /\ exa_answer.error = None

C8_Witness ==
    /\ pc = "answered"
    /\ sample.kind = "citation"
    /\ Len(sample.links) = 3
    /\ sample.sentence = ParisText
    /\ exa_answer.answer = ParisText \o <<".">>

\* C9: two paragraphs separated by a run of two or more newlines come out
\* separated by exactly two newlines, and two words separated by a run of
\* spaces come out separated by one space.
C9_NewlineRunsBecomeTwo ==
    (pc = "answered") =>
        /\ sample.kind = "paragraphs" =>
            exa_answer.answer = sample.first \o <<NL, NL>> \o sample.second
        /\ sample.kind = "spaces" =>
            exa_answer.answer = sample.first \o <<" ">> \o sample.second

Steps ==
    <<"search", "answer", "traditional", "exa_metrics",
      "traditional_metrics", "compare_metrics">>

\* C10: the collaborators are invoked in the order search, answer,
\* traditional, metrics, each at most once; a request that ends with
\* status 400 invoked none of them, one that ends with status 500 invoked at
\* most the search, one that ends with the full payload invoked them all;
\* and every finished request has one of the statuses 400, 500 and 200.
C10_StepsInOrder ==
    /\ Len(calls) <= Len(Steps)
    /\ calls = SubSeq(Steps, 1, Len(calls))
    /\ pc = "traditional" => exa_results # Unset /\ exa_answer # Unset
    /\ (pc = "done") <=> (response # Unset)
    /\ pc = "done" =>
        /\ response.status \in {400, 500, 200}
        /\ response.status = 400 => calls = <<>>
        /\ response.status = 500 => calls \in {<<>>, <<"search">>}
        /\ response.status = 200 => calls = Steps

C10_Witness ==
    /\ pc = "done"
    /\ response.status = 500
    /\ calls = <<"search">>

====
